---- MODULE Spec2Model ----
(***************************************************************************)
(* QuickSight MCP server: the paginated listing tools.                     *)
(*                                                                         *)
(* A tool call drains an upstream listing operation by following its       *)
(* continuation token (the service classes), then slices the drained list  *)
(* by the request's offset with a fixed limit of 10 (the tool functions).  *)
(* The upstream (the boto3 QuickSight client) is a fixed chain of pages;   *)
(* any upstream call may raise.  One step of the model is one upstream     *)
(* call together with all the synchronous code that follows it.            *)
(***************************************************************************)
EXTENDS Integers, Sequences, FiniteSets, TLC

\* ---------------------------------------------------------------- bounds
MaxPages == 2
MaxPageSize == 6
MaxBackOffset == 2
MaxOffset == 12
MaxDrainCalls == 4
MaxLongPage == 11
MaxOverlapOffset == 1
MaxEnvLines == 2
MaxIdLen == 13
MaxVersion == 2

\* ------------------------------------------------------ program constants
Limit == 10

AccountId == "123456789012"

\* Optional[T]: None is the empty tuple, a present value x is <<x>>.
None == <<>>
Some(x) == <<x>>

Min(a, b) == IF a < b THEN a ELSE b
Max(a, b) == IF a > b THEN a ELSE b

VARIABLES
    upstream,    \* the pages the remote listing operation serves, in token order
    pc,          \* "idle" | "draining" | "describing" | "done"
    tool,        \* name of the tool being executed
    request,     \* the tool's request: [offset, filters]
    acc,         \* the service method's accumulator list
    next_token,  \* the service method's next_token local
    calls,       \* upstream calls made by the latest service method call
    phase,       \* quicksight_overview: which of its four listings is running
    counts,      \* quicksight_overview: lengths of the listings finished so far
    svc,         \* outcome of the service method call that finished last, if any
    result,      \* what the tool handed to the tool-calling runtime
    loopTo,      \* upstream: page the last page's token leads back to (0: the chain ends)
    hist,        \* the calls the runtime has finished so far, oldest first
    other,       \* a second tool invocation in flight over the same client
    boot,        \* start-up: the inputs, the Config and the server built from them
    remote       \* what the remote service answers to a single-resource call

vars == <<upstream, pc, tool, request, acc, next_token, calls, phase, counts, svc, result,
          loopTo, hist, other, boot, remote>>

\* ------------------------------------------------------------------ tools
RawListTools == {"list_analyses"}
FormattedListTools == {"list_datasources", "list_templates", "list_themes"}
SearchTools == {"search_dashboards", "search_analyses", "search_data_sets", "search_data_sources"}
PaginatedTools == RawListTools \cup FormattedListTools \cup SearchTools
DictListTools == {"list_dashboards", "list_datasets"}
DescribeTools == {"describe_analysis", "describe_dashboard", "describe_dataset"}
OverviewTool == "quicksight_overview"
DrainTools == PaginatedTools \cup DictListTools \cup {OverviewTool}
Tools == DrainTools \cup DescribeTools

\* The list methods of the older QuickSightService wrapper (no tool uses them).
LegacyMethods == {"list_all_analyses", "list_all_dashboards", "list_all_datasets",
                  "list_all_datasources"}

\* Tools whose body is wrapped in try / except Exception.
GuardedTools == PaginatedTools \cup {"describe_analysis"}

OverviewOps == <<"list_data_sets", "list_data_sources", "list_analyses", "list_dashboards">>

\* The client operation a tool's service method calls.
ServiceOp(t, ph) ==
    CASE t = "list_analyses" -> "list_analyses"
      [] t = "list_datasources" -> "list_data_sources"
      [] t = "list_templates" -> "list_templates"
      [] t = "list_themes" -> "list_themes"
      [] t = "search_dashboards" -> "search_dashboards"
      [] t = "search_analyses" -> "search_analyses"
      [] t = "search_data_sets" -> "search_data_sets"
      [] t = "search_data_sources" -> "search_data_sources"
      [] t = "list_dashboards" -> "list_dashboards"
      [] t = "list_datasets" -> "list_data_sets"
      [] t = "describe_analysis" -> "describe_analysis"
      [] t = "describe_dashboard" -> "describe_dashboard"
      [] t = "describe_dataset" -> "describe_data_set"
      [] t = OverviewTool -> OverviewOps[ph]
      [] t = "list_all_analyses" -> "list_analyses"
      [] t = "list_all_dashboards" -> "list_dashboards"
      [] t = "list_all_datasets" -> "list_data_sets"
      [] t = "list_all_datasources" -> "list_data_sources"

\* --------------------------------------------------------------- upstream
Messages == {"API Error", "AccessDenied"}
FilterSets == {<<>>, <<"NAME_LIKE">>}

RECURSIVE SumSizes(_, _)
SumSizes(sizes, k) == IF k = 0 THEN 0 ELSE sizes[k] + SumSizes(sizes, k - 1)

\* A summary item as the remote service returns it: an id, an optional Name
\* key and further keys (here the Arn).
Item(i, named) == [Id |-> i, Name |-> IF named THEN Some("name") ELSE None, Arn |-> "arn"]

MkPage(sizes, k, noName) ==
    [j \in 1..sizes[k] |-> Item(SumSizes(sizes, k - 1) + j, k # noName)]

\* The remote listing call: no token selects the first page, the token
\* handed out with page k-1 selects page k; the last page carries no token,
\* unless the remote service leads the chain back to an earlier page.
ClientCall(params) ==
    LET k == IF params.NextToken = None THEN 1 ELSE params.NextToken[1]
    IN  [items |-> upstream[k],
         NextToken |-> IF k < Len(upstream) THEN Some(k + 1)
                       ELSE IF loopTo # 0 THEN Some(loopTo) ELSE None]

\* ---------------------------------------------------------------- service
\* Variant: the token is never put into the call's parameters.
BuildParamsNoToken(token, filters) ==
    [AwsAccountId |-> AccountId, NextToken |-> None, Filters |-> filters]

\* Variant: the filters are sent with the first call of a drain only.
BuildParamsFiltersOnce(token, filters) ==
    [AwsAccountId |-> AccountId, NextToken |-> token,
     Filters |-> IF token = None THEN filters ELSE None]

\* params = {'AwsAccountId': ...}; if next_token: params['NextToken'] = ...
\* (search methods add 'Filters': filters)
BuildParams(token, filters) ==
    [AwsAccountId |-> AccountId, NextToken |-> token, Filters |-> filters]

\* Variant: the list of the previous invocation is kept.
ReusedList(prior) == prior

\* analyses = []
NewList(prior) == <<>>

\* Variant: the loop stops after its first iteration.
LoopEndsAfterFirst(token, list, req) == TRUE

\* Variant: the loop stops as soon as the requested window is filled.
LoopEndsWhenWindowFull(token, list, req) ==
    token = None \/ Len(list) >= req.offset + Limit

\* if not next_token: break
LoopEnds(token, list, req) == token = None

\* Variant: the new page is put in front of the list.
ExtendInFront(list, items) == items \o list

\* analyses.extend(response.get('AnalysisSummaryList', []))
Extend(list, items) == list \o items

\* Variant: the failure is swallowed and an empty list returned.
SvcSwallow(list, msg) == [kind |-> "returned", items |-> <<>>, message |-> ""]

NoSvc == [kind |-> "none", items |-> None, message |-> ""]
\* return analyses
SvcReturn(list) == [kind |-> "returned", items |-> list, message |-> ""]
\* except Exception as e: logger.error(...); raise
SvcRaise(list, msg) == [kind |-> "raised", items |-> None, message |-> msg]

\* Variant: the older wrapper returns what it had fetched before the failure.
LegacyOnErrorPartial(list, msg) == SvcReturn(list)

\* QuickSightService.list_all_*: except Exception as e: logger.error(...); return []
LegacyOnError(list, msg) == SvcReturn(<<>>)

\* ------------------------------------------------------------------ tools
\* Variant: the stop index is inclusive.
PySliceInclusive(list, start, stop) ==
    LET n == Len(list)
        lo == IF start < 0 THEN Max(start + n, 0) ELSE Min(start, n)
        hi == IF stop + 1 < 0 THEN Max(stop + 1 + n, 0) ELSE Min(stop + 1, n)
    IN  IF lo >= hi THEN <<>> ELSE SubSeq(list, lo + 1, hi)

\* Variant: a start index past the end is clamped to the last element.
PySliceClamped(list, start, stop) ==
    LET n == Len(list)
        lo == IF start < 0 THEN Max(start + n, 0) ELSE Min(start, Max(n - 1, 0))
        hi == IF stop < 0 THEN Max(stop + n, 0) ELSE Min(stop, n)
    IN  IF lo >= hi THEN <<>> ELSE SubSeq(list, lo + 1, hi)

\* Python's list[start:stop] for integer bounds of either sign.
PySlice(list, start, stop) ==
    LET n == Len(list)
        lo == IF start < 0 THEN Max(start + n, 0) ELSE Min(start, n)
        hi == IF stop < 0 THEN Max(stop + n, 0) ELSE Min(stop, n)
    IN  IF lo >= hi THEN <<>> ELSE SubSeq(list, lo + 1, hi)

\* Variant: limit and offset are passed in each other's place.
PaginationInfoSwapped(limit, offset, total, has_more, next_offset) ==
    [limit |-> offset, offset |-> limit, total |-> total,
     has_more |-> has_more, next_offset |-> next_offset]

PaginationInfo(limit, offset, total, has_more, next_offset) ==
    [limit |-> limit, offset |-> offset, total |-> total,
     has_more |-> has_more, next_offset |-> next_offset]

ErrorInfo(message) == [message |-> message]

NoResult ==
    [kind |-> "none", status |-> "", items |-> <<>>, pagination |-> None,
     error |-> None, value |-> None, exception |-> ""]

\* The exception leaves the tool function.
Raised(msg) == [NoResult EXCEPT !.kind = "raised", !.exception = msg]

\* A plain (dict) return value.
Value(v) == [NoResult EXCEPT !.kind = "value", !.value = v]

\* Variant: has_more also when the window ends exactly at the end.
HasMoreInclusive(end_idx, total) == end_idx <= total

\* Variant: has_more whenever the window starts before the end.
HasMoreFromStart(end_idx, total) == end_idx - Limit < total

\* has_more = end_idx < len(all_analyses)
HasMore(end_idx, total) == end_idx < total

\* Variant: the next offset skips one item.
NextOffsetSkipping(end_idx, has_more) == IF has_more THEN Some(end_idx + 1) ELSE None

\* next_offset = end_idx if has_more else None
NextOffset(end_idx, has_more) == IF has_more THEN Some(end_idx) ELSE None

\* Variant: total counts the returned page only.
TotalOfPage(all, page) == Len(page)

\* total=len(all_analyses)
Total(all, page) == Len(all)

\* Variant: the failed response carries the window of what was drained.
FailedResponsePartial(req, list, msg) ==
    [NoResult EXCEPT !.kind = "response", !.status = "FAILED",
        !.items = PySlice(list, req.offset, req.offset + Limit),
        !.pagination = PaginationInfo(Limit, req.offset, 0, FALSE, None),
        !.error = Some(ErrorInfo(msg))]

\* Variant: the failed response counts what was drained before the failure.
FailedResponseCounted(req, list, msg) ==
    [NoResult EXCEPT !.kind = "response", !.status = "FAILED", !.items = <<>>,
        !.pagination = PaginationInfo(Limit, req.offset, Len(list),
                                      req.offset + Limit < Len(list),
                                      IF req.offset + Limit < Len(list)
                                      THEN Some(req.offset + Limit) ELSE None),
        !.error = Some(ErrorInfo(msg))]

\* except Exception as e: return List...Response(items=[], pagination=
\*   PaginationInfo(limit=10, offset=request.offset, total=0, has_more=False),
\*   status="FAILED", error=ErrorInfo(message=str(e)))
\* Variant: a failed response carries no error.
FailedResponseNoError(req, list, msg) ==
    [NoResult EXCEPT !.kind = "response", !.status = "FAILED", !.items = <<>>,
        !.pagination = PaginationInfo(Limit, req.offset, 0, FALSE, None)]

FailedResponse(req, list, msg) ==
    [NoResult EXCEPT !.kind = "response", !.status = "FAILED", !.items = <<>>,
        !.pagination = PaginationInfo(Limit, req.offset, 0, FALSE, None),
        !.error = Some(ErrorInfo(msg))]

\* {'DataSourceId': d['DataSourceId'], 'Name': d['Name']}
\* {'ThemeId': t['ThemeId'], 'Name': t.get('Name', t['ThemeId'])}
FormatItem(t, d) ==
    [Id |-> d.Id,
     Name |-> IF d.Name # None THEN d.Name[1] ELSE ToString(d.Id)]

\* d['Name'] raises KeyError('Name') when the key is absent.
FormatRaises(t, page) ==
    /\ t = "list_datasources"
    /\ \E j \in 1..Len(page) : page[j].Name = None

Format(t, page) ==
    IF t \in FormattedListTools
    THEN [j \in 1..Len(page) |-> FormatItem(t, page[j])]
    ELSE page

\* The body of a paginated tool after the service method returned.
Paginate(t, req, all) ==
    LET start_idx == req.offset
        end_idx == start_idx + Limit
        page == PySlice(all, start_idx, end_idx)
        has_more == HasMore(end_idx, Len(all))
    IN  IF FormatRaises(t, page)
        THEN FailedResponse(req, all, "'Name'")
        ELSE [NoResult EXCEPT !.kind = "response", !.status = "SUCCESS",
                !.items = Format(t, page),
                !.pagination = PaginationInfo(Limit, req.offset, Total(all, page),
                                              has_more, NextOffset(end_idx, has_more))]

\* list_dashboards / list_datasets: result[dashboard_id] = dashboard_name
DictOf(all) ==
    IF \E j \in 1..Len(all) : all[j].Name = None
    THEN Raised("'Name'")
    ELSE Value([id \in {all[j].Id : j \in 1..Len(all)} |->
                  (CHOOSE j \in 1..Len(all) :
                       /\ all[j].Id = id
                       /\ \A l \in (j + 1)..Len(all) : all[l].Id # id)])

\* What a tool does with an exception raised by its service method.
OnException(t, req, list, msg) ==
    IF t \notin GuardedTools THEN Raised(msg)
    ELSE IF t \in PaginatedTools THEN FailedResponse(req, list, msg)
    ELSE [NoResult EXCEPT !.kind = "response", !.status = "FAILED",
                          !.value = Some([x \in {} |-> x]), !.error = Some(ErrorInfo(msg))]

\* Start-up is over: create_server has returned and the tools are registered.
Serving == [pc |-> "serving"]

\* No single-resource call is being modelled.
NoRemote == [fails |-> None]

\* No second invocation is in flight.
NoOther ==
    [pc |-> "idle", tool |-> "", request |-> [offset |-> 0, filters |-> None],
     acc |-> <<>>, next_token |-> None, result |-> NoResult]

\* ------------------------------------------------------------------- Init
Init ==
    /\ \E n \in 1..MaxPages :
         \E sizes \in [1..n -> 0..MaxPageSize] :
           \E noName \in 0..n :
             upstream = [k \in 1..n |-> MkPage(sizes, k, noName)]
    /\ pc = "idle"
    /\ tool = ""
    /\ request = [offset |-> 0, filters |-> None]
    /\ acc = <<>>
    /\ next_token = None
    /\ calls = <<>>
    /\ phase = 1
    /\ counts = <<>>
    /\ svc = NoSvc
    /\ result = NoResult
    /\ loopTo = 0
    /\ hist = <<>>
    /\ other = NoOther
    /\ boot = Serving
    /\ remote = NoRemote

\* ---------------------------------------------------------------- actions
\* The runtime invokes a tool; the tool builds its service and the service
\* method starts with an empty list and no token.
Call(t, off, f) ==
    /\ pc = "idle"
    /\ tool' = t
    /\ request' = [offset |-> off, filters |-> f]
    /\ acc' = NewList(acc)
    /\ next_token' = None
    /\ calls' = <<>>
    /\ phase' = 1
    /\ counts' = <<>>
    /\ svc' = NoSvc
    /\ result' = NoResult
    /\ pc' = IF t \in DescribeTools THEN "describing" ELSE "draining"
    /\ UNCHANGED <<upstream, loopTo, hist, other, boot, remote>>

CallPaginated ==
    \E t \in PaginatedTools, off \in (0 - MaxBackOffset)..MaxOffset :
        \E f \in (IF t \in SearchTools THEN {Some(fs) : fs \in FilterSets} ELSE {None}) :
            Call(t, off, f)

CallUnpaginated ==
    \E t \in Tools \ PaginatedTools : Call(t, 0, None)

\* A caller of the older wrapper invokes one of its list methods.
CallLegacy ==
    \E t \in LegacyMethods : Call(t, 0, None)

\* The log of upstream calls of the running service method: a method's first
\* loop iteration (no token yet) starts a new log.
Log == IF next_token = None THEN <<>> ELSE calls

\* One iteration of the service method's while loop whose client call
\* succeeds, and, when the response carries no token, everything up to the
\* tool's return (for quicksight_overview: up to the next listing's first
\* client call).
FetchPage ==
    /\ pc = "draining"
    /\ LET params == BuildParams(next_token,
                                 IF tool \in SearchTools THEN request.filters ELSE None)
           response == ClientCall(params)
           list == Extend(acc, response.items)
           call == [op |-> ServiceOp(tool, phase), params |-> params,
                    outcome |-> [kind |-> "ok", NextToken |-> response.NextToken,
                                 message |-> ""]]
       IN  /\ calls' = Append(Log, call)
           /\ IF ~LoopEnds(response.NextToken, list, request)
              THEN /\ acc' = list
                   /\ next_token' = response.NextToken
                   /\ svc' = NoSvc
                   /\ UNCHANGED <<pc, phase, counts, result>>
              ELSE /\ svc' = SvcReturn(list)
                   /\ IF tool = OverviewTool
                      THEN /\ counts' = Append(counts, Len(list))
                           /\ acc' = <<>>
                           /\ next_token' = None
                           /\ IF phase < Len(OverviewOps)
                              THEN /\ phase' = phase + 1
                                   /\ UNCHANGED <<pc, result>>
                              ELSE /\ result' = Value([datasets_count |-> counts[1],
                                                       datasources_count |-> counts[2],
                                                       analyses_count |-> counts[3],
                                                       dashboards_count |-> Len(list)])
                                   /\ pc' = "done"
                                   /\ UNCHANGED phase
                      ELSE /\ acc' = list
                           /\ next_token' = response.NextToken
                           /\ result' = IF tool \in PaginatedTools
                                        THEN Paginate(tool, request, list)
                                        ELSE IF tool \in LegacyMethods
                                        THEN Value(list)
                                        ELSE DictOf(list)
                           /\ pc' = "done"
                           /\ UNCHANGED <<phase, counts>>
    /\ UNCHANGED <<upstream, tool, request, loopTo, hist, other, boot, remote>>

\* The client call of a loop iteration raises: the service method logs and
\* re-raises, the tool catches the exception or lets it escape.
FetchFail(msg) ==
    /\ pc = "draining"
    /\ LET params == BuildParams(next_token,
                                 IF tool \in SearchTools THEN request.filters ELSE None)
           call == [op |-> ServiceOp(tool, phase), params |-> params,
                    outcome |-> [kind |-> "error", NextToken |-> None, message |-> msg]]
       IN  /\ calls' = Append(Log, call)
           /\ IF tool \in LegacyMethods
              THEN /\ svc' = LegacyOnError(acc, msg)
                   /\ result' = Value(LegacyOnError(acc, msg).items)
              ELSE /\ svc' = SvcRaise(acc, msg)
                   /\ result' = OnException(tool, request, acc, msg)
           /\ pc' = "done"
    /\ UNCHANGED <<upstream, tool, request, acc, next_token, phase, counts,
                   loopTo, hist, other, boot, remote>>

\* describe_*: one client call, the service unwraps the response envelope.
Describe ==
    /\ pc = "describing"
    /\ calls' = Append(calls, [op |-> ServiceOp(tool, phase),
                               params |-> BuildParams(None, None),
                               outcome |-> [kind |-> "ok", NextToken |-> None, message |-> ""]])
    /\ svc' = [kind |-> "returned", items |-> <<Item(1, TRUE)>>, message |-> ""]
    /\ result' = IF tool = "describe_analysis"
                 THEN [NoResult EXCEPT !.kind = "response", !.status = "SUCCESS",
                                       !.value = Some(Item(1, TRUE))]
                 ELSE Value(Item(1, TRUE))
    /\ pc' = "done"
    /\ UNCHANGED <<upstream, tool, request, acc, next_token, phase, counts,
                   loopTo, hist, other, boot, remote>>

DescribeFail(msg) ==
    /\ pc = "describing"
    /\ calls' = Append(calls, [op |-> ServiceOp(tool, phase),
                               params |-> BuildParams(None, None),
                               outcome |-> [kind |-> "error", NextToken |-> None, message |-> msg]])
    /\ svc' = SvcRaise(acc, msg)
    /\ result' = OnException(tool, request, acc, msg)
    /\ pc' = "done"
    /\ UNCHANGED <<upstream, tool, request, acc, next_token, phase, counts,
                   loopTo, hist, other, boot, remote>>

\* The runtime has taken the result; nothing of the call is kept (every
\* local of the tool and of its service dies with the call).
Return ==
    /\ pc = "done"
    /\ pc' = "idle"
    /\ tool' = ""
    /\ request' = [offset |-> 0, filters |-> None]
    /\ acc' = <<>>
    /\ next_token' = None
    /\ calls' = <<>>
    /\ phase' = 1
    /\ counts' = <<>>
    /\ svc' = NoSvc
    /\ result' = NoResult
    /\ UNCHANGED <<upstream, loopTo, hist, other, boot, remote>>

Next ==
    \/ CallPaginated
    \/ CallUnpaginated
    \/ CallLegacy
    \/ FetchPage
    \/ \E msg \in Messages : FetchFail(msg)
    \/ Describe
    \/ \E msg \in Messages : DescribeFail(msg)
    \/ Return

Spec == Init /\ [][Next]_vars

\* ------------------------------------------- a token chain that never ends
\* Nothing is running and nothing has run.
NoCalls ==
    /\ pc = "idle"
    /\ tool = ""
    /\ request = [offset |-> 0, filters |-> None]
    /\ acc = <<>>
    /\ next_token = None
    /\ calls = <<>>
    /\ phase = 1
    /\ counts = <<>>
    /\ svc = NoSvc
    /\ result = NoResult
    /\ hist = <<>>
    /\ other = NoOther

Quiescent == NoCalls /\ boot = Serving /\ remote = NoRemote

\* The remote service hands out a token with every page: the last page's
\* token leads back to an earlier page.
CycleInit ==
    /\ \E n \in 1..MaxPages :
         \E sizes \in [1..n -> 0..MaxPageSize] :
           /\ upstream = [k \in 1..n |-> MkPage(sizes, k, 0)]
           /\ loopTo \in 1..n
    /\ Quiescent

CycleCall ==
    \/ \E t \in PaginatedTools, off \in (0 - MaxBackOffset)..MaxOffset :
          Call(t, off, IF t \in SearchTools THEN Some(<<>>) ELSE None)
    \/ \E t \in DrainTools \ PaginatedTools : Call(t, 0, None)

\* The loop itself has no bound; the model follows it for MaxDrainCalls calls.
CycleFetch ==
    /\ Len(calls) < MaxDrainCalls
    /\ FetchPage

CycleFetchFail ==
    /\ Len(calls) < MaxDrainCalls
    /\ \E msg \in Messages : FetchFail(msg)

CycleNext ==
    \/ CycleCall
    \/ CycleFetch
    \/ CycleFetchFail
    \/ Return

CycleSpec == CycleInit /\ [][CycleNext]_vars

\* ------------------------------------------ a client paging through a list
\* The runtime has taken the result and remembers it; the tool's and the
\* service's locals are garbage from here on.
Finish ==
    /\ pc = "done"
    /\ pc' = "idle"
    /\ hist' = Append(hist, [tool |-> tool, request |-> request, result |-> result,
                             ncalls |-> Len(calls), svc |-> svc.kind])
    /\ UNCHANGED <<upstream, tool, request, acc, next_token, calls, phase, counts,
                   svc, result, loopTo, other, boot, remote>>

LastDone == hist[Len(hist)]

\* Upstream pages long enough for one page to fill a window of 10.
PagerInit ==
    /\ \E n \in 1..MaxPages :
         \E sizes \in [1..n -> 0..MaxLongPage] :
           \E noName \in 0..n :
             upstream = [k \in 1..n |-> MkPage(sizes, k, noName)]
    /\ loopTo = 0
    /\ Quiescent

\* The client's first request: offset 0.
PagerStart ==
    /\ hist = <<>>
    /\ \E t \in PaginatedTools :
         \E f \in (IF t \in SearchTools THEN {Some(fs) : fs \in FilterSets} ELSE {None}) :
            Call(t, 0, f)

\* The client asks for the next page with the next_offset it was given.
PagerContinue ==
    /\ hist # <<>>
    /\ LastDone.result.kind = "response"
    /\ LastDone.result.pagination.has_more
    /\ Call(LastDone.tool, LastDone.result.pagination.next_offset[1],
            LastDone.request.filters)

PagerNext ==
    \/ PagerStart
    \/ PagerContinue
    \/ FetchPage
    \/ \E msg \in Messages : FetchFail(msg)
    \/ Finish

PagerSpec == PagerInit /\ [][PagerNext]_vars

\* ------------------------------------------- the same request, made twice
\* Upstream answers every call and does not change between the two.
RepeatInit == Init

RepeatFirst == hist = <<>> /\ CallPaginated

RepeatAgain ==
    /\ Len(hist) = 1
    /\ Call(LastDone.tool, LastDone.request.offset, LastDone.request.filters)

RepeatNext ==
    \/ RepeatFirst
    \/ RepeatAgain
    \/ FetchPage
    \/ Finish

RepeatSpec == RepeatInit /\ [][RepeatNext]_vars

\* ----------------------------- two tool calls in flight on the same client
\* A second invocation, with locals of its own, starts while the first is in
\* its drain; the two take turns at upstream calls.  Pages are empty or full.
OverlapInit ==
    /\ \E n \in 1..MaxPages :
         \E sizes \in [1..n -> {0, MaxPageSize}] :
           \E noName \in 0..n :
             upstream = [k \in 1..n |-> MkPage(sizes, k, noName)]
    /\ loopTo = 0
    /\ Quiescent

OverlapCall ==
    /\ hist = <<>>
    /\ \E t \in PaginatedTools, off \in 0..MaxOverlapOffset :
          Call(t, off, IF t \in SearchTools THEN Some(<<>>) ELSE None)

\* The second invocation's entry: its service method binds a list of its own.
OtherCall ==
    /\ pc = "draining"
    /\ other.pc = "idle"
    /\ \E t \in PaginatedTools, off \in 0..MaxOverlapOffset :
          other' = [pc |-> "draining", tool |-> t,
                    request |-> [offset |-> off,
                                 filters |-> IF t \in SearchTools THEN Some(<<>>) ELSE None],
                    acc |-> NewList(acc), next_token |-> None, result |-> NoResult]
    /\ UNCHANGED <<upstream, pc, tool, request, acc, next_token, calls, phase,
                   counts, svc, result, loopTo, hist, boot, remote>>

\* One loop iteration of the second invocation's service method and, on a
\* tokenless response, the rest of its tool body.
OtherFetch ==
    /\ other.pc = "draining"
    /\ LET params == BuildParams(other.next_token,
                                 IF other.tool \in SearchTools
                                 THEN other.request.filters ELSE None)
           response == ClientCall(params)
           list == Extend(other.acc, response.items)
       IN  other' = IF ~LoopEnds(response.NextToken, list, other.request)
                    THEN [other EXCEPT !.acc = list,
                                       !.next_token = response.NextToken]
                    ELSE [other EXCEPT !.acc = list,
                                       !.next_token = response.NextToken,
                                       !.result = Paginate(other.tool, other.request, list),
                                       !.pc = "done"]
    /\ UNCHANGED <<upstream, pc, tool, request, acc, next_token, calls, phase,
                   counts, svc, result, loopTo, hist, boot, remote>>

OverlapNext ==
    \/ OverlapCall
    \/ OtherCall
    \/ FetchPage
    \/ OtherFetch

OverlapSpec == OverlapInit /\ [][OverlapNext]_vars

\* ----------------------------------------------------- Config.from_env
\* The settings from_env reads, named by their environment variable.  The
\* secret key and the session token are resolved by the same expression as
\* the access key id, MCP_HOST by the same expression as the region without
\* an argument.
ArgKeys == {"AWS_ACCOUNT_ID", "AWS_REGION", "AWS_ACCESS_KEY_ID"}
EnvKeys == ArgKeys \cup {"MCP_PORT"}

ArgValues == {None, Some(""), Some("cli")}
EnvValues(k) == IF k = "MCP_PORT" THEN {None, Some("9000"), Some("port")}
                ELSE {None, Some(""), Some("env")}

\* The lines of a .env file after strip(): KEY=value entries, comments and
\* blank lines.
EnvLines ==
    {[kind |-> "entry", key |-> k, value |-> IF k = "MCP_PORT" THEN "9001" ELSE "file"] :
        k \in EnvKeys}
    \cup {[kind |-> "comment", key |-> "", value |-> ""]}

EnvFiles == UNION {[1..n -> EnvLines] : n \in 0..MaxEnvLines}

\* Python truthiness of an optional string, and the value of `a or b`.
Truthy(o) == o # None /\ o[1] # ""
Or(a, b) == IF Truthy(a) THEN a ELSE b

\* os.getenv(key) and os.getenv(key, default)
Getenv(env, key) == env[key]
GetenvDefault(env, key, default) == IF env[key] = None THEN Some(default) ELSE env[key]

\* Variant: a .env entry replaces the variable's value.
SetOverride(env, key, value) == [env EXCEPT ![key] = Some(value)]

\* os.environ.setdefault(key, value)
SetDefault(env, key, value) ==
    IF env[key] # None THEN env ELSE [env EXCEPT ![key] = Some(value)]

\* Config._load_env_file: every entry line, in file order.
RECURSIVE LoadEnvFile(_, _)
LoadEnvFile(env, lines) ==
    IF lines = <<>> THEN env
    ELSE LET line == Head(lines)
         IN  LoadEnvFile(IF line.kind = "entry"
                         THEN SetDefault(env, line.key, line.value)
                         ELSE env,
                         Tail(lines))

\* int(text): the decimal strings of this model and their values.
IsDecimal(text) == text \in {"8000", "9000", "9001"}
IntOf(text) == CASE text = "8000" -> 8000 [] text = "9000" -> 9000 [] text = "9001" -> 9001

AccountRequired == "ValueError: AWS_ACCOUNT_ID is required"
InvalidLiteral == "ValueError: invalid literal for int()"

\* The process starts: arguments, inherited environment, and a .env file in
\* the working directory or none.
ConfigInit ==
    /\ \E args \in [ArgKeys -> ArgValues] :
         \E env \in {e \in [EnvKeys -> {None, Some(""), Some("env"), Some("9000"), Some("port")}] :
                        \A k \in EnvKeys : e[k] \in EnvValues(k)} :
           \E file \in {None} \cup {Some(f) : f \in EnvFiles} :
              boot = [pc |-> "start", args |-> args, inherited |-> env, environ |-> env,
                      dotenv |-> file, config |-> None, error |-> ""]
    /\ NoCalls
    /\ upstream = <<>>
    /\ loopTo = 0
    /\ remote = NoRemote

\* Config.from_env(...)
FromEnv ==
    /\ boot.pc = "start"
    /\ LET env == IF boot.dotenv # None
                  THEN LoadEnvFile(boot.environ, boot.dotenv[1])
                  ELSE boot.environ
           final_account_id == Or(boot.args["AWS_ACCOUNT_ID"], Getenv(env, "AWS_ACCOUNT_ID"))
           port == GetenvDefault(env, "MCP_PORT", "8000")[1]
       IN  boot' =
             IF ~Truthy(final_account_id)
             THEN [boot EXCEPT !.pc = "failed", !.environ = env, !.error = AccountRequired]
             ELSE IF ~IsDecimal(port)
             THEN [boot EXCEPT !.pc = "failed", !.environ = env, !.error = InvalidLiteral]
             ELSE [boot EXCEPT !.pc = "loaded", !.environ = env,
                     !.config = Some(
                        [aws_account_id |-> final_account_id[1],
                         aws_region |-> Or(boot.args["AWS_REGION"],
                                           GetenvDefault(env, "AWS_REGION", "us-east-1"))[1],
                         aws_access_key_id |-> Or(boot.args["AWS_ACCESS_KEY_ID"],
                                                  Getenv(env, "AWS_ACCESS_KEY_ID")),
                         mcp_port |-> IntOf(port)])]
    /\ UNCHANGED <<upstream, pc, tool, request, acc, next_token, calls, phase, counts,
                   svc, result, loopTo, hist, other, remote>>

ConfigNext == FromEnv

ConfigSpec == ConfigInit /\ [][ConfigNext]_vars

\* ------------------------------------------------------- create_server
\* Characters an account id may be written with: an ASCII digit, a
\* superscript two (a digit to str.isdigit, not a decimal digit) and a letter.
Chars == {"7", "SUPERSCRIPT TWO", "a"}
IsDigitChar(c) == c \in {"7", "SUPERSCRIPT TWO"}
IsDecimalDigitChar(c) == c = "7"

\* Account ids: runs of "7" with at most one other character in them.
AccountIds ==
    {[i \in 1..n |-> IF i = p THEN c ELSE "7"] :
        n \in 0..MaxIdLen, p \in 0..MaxIdLen, c \in Chars}

\* str.isdigit(): non-empty and every character a digit.
IsDigit(id) == Len(id) > 0 /\ \A i \in 1..Len(id) : IsDigitChar(id[i])

\* Config.validate: the message of the ValueError it raises, or "" for none.
Validate(config) ==
    IF config.aws_account_id = <<>> THEN AccountRequired
    ELSE IF ~IsDigit(config.aws_account_id) \/ Len(config.aws_account_id) # 12
    THEN "ValueError: Invalid AWS_ACCOUNT_ID"
    ELSE ""

\* session_kwargs: region_name always, a credential when it is non-empty.
SessionKwargs(config) ==
    [region_name |-> config.aws_region,
     aws_access_key_id |-> IF Truthy(config.aws_access_key_id)
                           THEN config.aws_access_key_id ELSE None,
     aws_secret_access_key |-> IF Truthy(config.aws_secret_access_key)
                               THEN config.aws_secret_access_key ELSE None,
     aws_session_token |-> IF Truthy(config.aws_session_token)
                           THEN config.aws_session_token ELSE None]

\* A Config has been built (from_env or the constructor); no server yet and
\* no AWS client created.
ServerInit ==
    /\ \E id \in AccountIds, region \in {"us-east-1", "eu-west-1"} :
         \E key, secret, token \in {None, Some(""), Some("credential")} :
            boot = [pc |-> "configured",
                    config |-> [aws_account_id |-> id, aws_region |-> region,
                                aws_access_key_id |-> key,
                                aws_secret_access_key |-> secret,
                                aws_session_token |-> token],
                    server |-> None, clients |-> <<>>, error |-> ""]
    /\ NoCalls
    /\ upstream = <<>>
    /\ loopTo = 0
    /\ remote = NoRemote

\* create_server(config)
CreateServer ==
    /\ boot.pc = "configured"
    /\ boot' =
         IF Validate(boot.config) # ""
         THEN [boot EXCEPT !.pc = "rejected", !.error = Validate(boot.config)]
         ELSE LET client == [service |-> "quicksight",
                             kwargs |-> SessionKwargs(boot.config)]
              IN  [boot EXCEPT !.pc = "created",
                               !.clients = Append(boot.clients, client),
                               !.server = Some([name |-> "quicksight-mcp",
                                                config |-> boot.config,
                                                quicksight |-> client])]
    /\ UNCHANGED <<upstream, pc, tool, request, acc, next_token, calls, phase, counts,
                   svc, result, loopTo, hist, other, remote>>

ServerNext == CreateServer

ServerSpec == ServerInit /\ [][ServerNext]_vars

\* -------------------------------------------- tools making a single call
\* The tools that fetch or change one resource with one service method call.
DetailTools == {"describe_analysis_definition", "describe_dashboard_definition",
                "list_dashboard_versions", "update_dashboard_published_version",
                "describe_ingestion", "create_ingestion"}

\* The methods each service class defines.
ServiceMethods(service) ==
    CASE service = "AnalysisService" ->
            {"list_analyses", "describe_analysis", "create_analysis", "update_analysis",
             "update_permissions"}
      [] service = "DashboardService" ->
            {"list_dashboards", "describe_dashboard", "create_dashboard",
             "update_dashboard", "publish_version", "update_permissions"}
      [] service = "IngestionService" ->
            {"create_ingestion", "describe_ingestion", "cancel_ingestion",
             "list_refresh_schedules", "create_refresh_schedule",
             "update_refresh_schedule"}

\* The service class a tool builds and the method it calls on it.
Target(t) ==
    CASE t = "describe_analysis_definition" ->
            [service |-> "AnalysisService", method |-> "describe_analysis_definition"]
      [] t = "describe_dashboard_definition" ->
            [service |-> "DashboardService", method |-> "describe_dashboard_definition"]
      [] t = "list_dashboard_versions" ->
            [service |-> "DashboardService", method |-> "list_dashboard_versions"]
      [] t = "update_dashboard_published_version" ->
            [service |-> "DashboardService", method |-> "update_dashboard_published_version"]
      [] t = "describe_ingestion" ->
            [service |-> "IngestionService", method |-> "describe_ingestion"]
      [] t = "create_ingestion" ->
            [service |-> "IngestionService", method |-> "create_ingestion"]

\* str(e) of the AttributeError raised by calling a method a class lacks.
AttributeError(service, method) ==
    "'" \o service \o "' object has no attribute '" \o method \o "'"

\* dict.get(key, default) on a dict held as a record of optional values.
DictGet(d, key, default) == IF d[key] = None THEN default ELSE d[key][1]

\* {}
EmptyIngestion ==
    [Ingestion |-> None, Arn |-> None, IngestionId |-> None, IngestionStatus |-> None,
     IngestionType |-> None, RowInfo |-> None]

\* The Ingestion structures the remote service may hold (it has no member
\* named Ingestion).
Ingestions ==
    {[Ingestion |-> None, Arn |-> arn, IngestionId |-> Some("ing1"),
      IngestionStatus |-> st, IngestionType |-> ty, RowInfo |-> ri] :
        arn \in {None, Some("arn:ingestion")},
        st \in {None, Some("COMPLETED"), Some("RUNNING")},
        ty \in {None, Some("FULL_REFRESH")},
        ri \in {None, Some("RowsIngested: 100")}}

\* client.describe_ingestion / client.create_ingestion: the parameters sent.
IngestionParams(req) ==
    [AwsAccountId |-> AccountId, DataSetId |-> req.resource_id,
     IngestionId |-> req.ingestion_id]

\* IngestionService.describe_ingestion: return response.get('Ingestion', {})
SvcDescribeIngestion(response) == DictGet(response, "Ingestion", EmptyIngestion)

\* IngestionService.create_ingestion: return response
SvcCreateIngestion(response) == response

\* describe_ingestion, after its service method returned `response`.
DescribeIngestionResponse(req, response) ==
    LET ingestion == DictGet(response, "Ingestion", EmptyIngestion)
    IN  [NoResult EXCEPT !.kind = "response", !.status = "SUCCESS",
            !.value = Some(
               [arn |-> DictGet(ingestion, "Arn", ""),
                ingestion_id |-> DictGet(ingestion, "IngestionId", req.ingestion_id),
                ingestion_status |-> DictGet(ingestion, "IngestionStatus", "UNKNOWN"),
                ingestion_type |-> DictGet(ingestion, "IngestionType", ""),
                row_info |-> DictGet(ingestion, "RowInfo", "{}")])]

\* create_ingestion, after its service method returned `response`; the
\* subscript response['Arn'] raises KeyError when the key is absent.
CreateIngestionResponse(req, response) ==
    IF response.Arn = None
    THEN [NoResult EXCEPT !.kind = "response", !.status = "FAILED",
            !.value = Some([arn |-> "", ingestion_id |-> req.ingestion_id,
                            ingestion_status |-> "FAILED"]),
            !.error = Some(ErrorInfo("'Arn'"))]
    ELSE [NoResult EXCEPT !.kind = "response", !.status = "SUCCESS",
            !.value = Some(
               [arn |-> response.Arn[1],
                ingestion_id |-> DictGet(response, "IngestionId", req.ingestion_id),
                ingestion_status |-> DictGet(response, "IngestionStatus", "INITIALIZED")])]

\* The except branch of each tool.
DetailFailure(t, req, msg) ==
    CASE t = "describe_analysis_definition" ->
            [NoResult EXCEPT !.kind = "response", !.status = "FAILED",
               !.value = Some([analysis_id |-> req.resource_id, definition |-> "{}",
                               errors |-> <<>>]),
               !.error = Some(ErrorInfo(msg))]
      [] t = "describe_ingestion" ->
            [NoResult EXCEPT !.kind = "response", !.status = "FAILED",
               !.value = Some([arn |-> "", ingestion_id |-> req.ingestion_id,
                               ingestion_status |-> "FAILED", ingestion_type |-> "",
                               row_info |-> "{}"]),
               !.error = Some(ErrorInfo(msg))]
      [] t = "create_ingestion" ->
            [NoResult EXCEPT !.kind = "response", !.status = "FAILED",
               !.value = Some([arn |-> "", ingestion_id |-> req.ingestion_id,
                               ingestion_status |-> "FAILED"]),
               !.error = Some(ErrorInfo(msg))]
      [] t = "update_dashboard_published_version" ->
            Value([Status |-> "FAILED", Error |-> msg, DashboardId |-> req.resource_id])
      [] t \in {"describe_dashboard_definition", "list_dashboard_versions"} ->
            Value([Status |-> "FAILED", Error |-> msg])

\* The tools are registered; the remote service holds an ingestion and either
\* answers single-resource calls or fails them.
DetailInit ==
    /\ \E n \in 1..MaxPages :
         \E sizes \in [1..n -> {0, MaxPageSize}] :
           \E noName \in 0..n :
             upstream = [k \in 1..n |-> MkPage(sizes, k, noName)]
    /\ \E f \in {None} \cup {Some(msg) : msg \in Messages}, ing \in Ingestions :
          remote = [fails |-> f, ingestion |-> ing]
    /\ loopTo = 0
    /\ NoCalls
    /\ boot = Serving

\* The runtime invokes a single-call tool.
DetailCall ==
    /\ pc = "idle"
    /\ \E t \in DetailTools, id \in {"r1", "r2"}, v \in 1..MaxVersion :
         /\ tool' = t
         /\ request' = [resource_id |-> id, ingestion_id |-> "ing1", version_number |-> v]
    /\ pc' = "describing"
    /\ acc' = <<>>
    /\ next_token' = None
    /\ calls' = <<>>
    /\ phase' = 1
    /\ counts' = <<>>
    /\ svc' = NoSvc
    /\ result' = NoResult
    /\ UNCHANGED <<upstream, loopTo, hist, other, boot, remote>>

\* The tool's body: build the service, call the method (which makes the
\* client call), build the result or take the except branch.
DetailRun ==
    /\ pc = "describing"
    /\ tool \in DetailTools
    /\ LET target == Target(tool)
           call(outcome) == [op |-> target.method, params |-> IngestionParams(request),
                             outcome |-> outcome]
       IN  IF target.method \notin ServiceMethods(target.service)
           THEN /\ calls' = calls
                /\ svc' = SvcRaise(acc, AttributeError(target.service, target.method))
                /\ result' = DetailFailure(tool, request,
                                           AttributeError(target.service, target.method))
           ELSE IF remote.fails # None
           THEN /\ calls' = Append(calls, call([kind |-> "error", NextToken |-> None,
                                                message |-> remote.fails[1]]))
                /\ svc' = SvcRaise(acc, remote.fails[1])
                /\ result' = DetailFailure(tool, request, remote.fails[1])
           ELSE /\ calls' = Append(calls, call([kind |-> "ok", NextToken |-> None,
                                                message |-> ""]))
                /\ svc' = SvcReturn(<<>>)
                /\ result' =
                     IF tool = "describe_ingestion"
                     THEN DescribeIngestionResponse(
                              request,
                              SvcDescribeIngestion([EmptyIngestion EXCEPT
                                                      !.Ingestion = Some(remote.ingestion)]))
                     ELSE CreateIngestionResponse(request,
                                                  SvcCreateIngestion(remote.ingestion))
    /\ pc' = "done"
    /\ UNCHANGED <<upstream, tool, request, acc, next_token, phase, counts,
                   loopTo, hist, other, boot, remote>>

DetailNext ==
    \/ DetailCall
    \/ DetailRun
    \/ OverlapCall
    \/ FetchPage
    \/ \E msg \in Messages : FetchFail(msg)
    \/ Return

DetailSpec == DetailInit /\ [][DetailNext]_vars

\* ------------------------------------------------------------- properties
\* The drained sequence S: the items of all upstream pages, in page order.
RECURSIVE Flatten(_, _)
Flatten(pages, k) == IF k = 0 THEN <<>> ELSE Flatten(pages, k - 1) \o pages[k]

S == Flatten(upstream, Len(upstream))

\* S[offset : offset+10] for offset >= 0, written out element by element.
Window(s, off) ==
    [j \in 1..(Min(off + Limit, Len(s)) - off) |-> s[off + j]]

Succeeded == pc = "done" /\ tool \in PaginatedTools /\ result.status = "SUCCESS"

DrainFailed == pc = "done" /\ tool \in PaginatedTools /\ svc.kind = "raised"

LastCall == calls[Len(calls)]

\* C1 (as stated): a successful paginated list/search tool call with
\* offset >= 0 returns items equal to S[offset : offset+10], in S's order.
C1_ItemsAreTheSlice ==
    (Succeeded /\ request.offset >= 0) => result.items = Window(S, request.offset)

\* C1 (amended): list_analyses and the search tools return exactly
\* S[offset : offset+10]; list_datasources, list_templates and list_themes
\* return, in the same order, one {Id, Name} entry per element of that slice
\* (the element's Name, or its id when a template or theme has no Name).
C1_ItemsAreTheSliceOrItsProjection ==
    (Succeeded /\ request.offset >= 0) =>
        LET w == Window(S, request.offset)
        IN  IF tool \in FormattedListTools
            THEN /\ Len(result.items) = Len(w)
                 /\ \A j \in 1..Len(w) :
                      /\ DOMAIN result.items[j] = {"Id", "Name"}
                      /\ result.items[j].Id = w[j].Id
                      /\ result.items[j].Name =
                            (IF w[j].Name = None THEN ToString(w[j].Id) ELSE "name")
            ELSE result.items = w

C1_Witness ==
    /\ Succeeded
    /\ tool = "search_dashboards"
    /\ request.offset = 1
    /\ Len(S) > request.offset + Limit
    /\ Len(result.items) = Limit

\* C2: in a successful paginated response with offset >= 0, has_more is
\* (offset + limit < total), and next_offset is offset + limit when has_more
\* and absent otherwise.
C2_HasMoreAndNextOffset ==
    (Succeeded /\ request.offset >= 0) =>
        LET p == result.pagination
        IN  /\ p.has_more = (request.offset + p.limit < p.total)
            /\ p.has_more => p.next_offset = Some(request.offset + p.limit)
            /\ ~p.has_more => p.next_offset = None

C2_Witness ==
    /\ Succeeded
    /\ request.offset = 1
    /\ result.pagination.has_more
    /\ result.pagination.next_offset = Some(11)

\* C3: when the drain succeeded and offset >= len(S) (S empty with offset 0
\* included), the tool answers SUCCESS with no items, total = len(S),
\* has_more false and no next_offset.
C3_OffsetPastTheEnd ==
    (pc = "done" /\ tool \in PaginatedTools /\ svc.kind = "returned"
        /\ request.offset >= Len(S)) =>
        /\ result.kind = "response"
        /\ result.status = "SUCCESS"
        /\ result.error = None
        /\ result.items = <<>>
        /\ result.pagination.total = Len(S)
        /\ result.pagination.has_more = FALSE
        /\ result.pagination.next_offset = None

C3_Witness ==
    /\ pc = "done"
    /\ tool = "list_datasources"
    /\ svc.kind = "returned"
    /\ Len(S) > 0
    /\ request.offset >= Len(S)
    /\ result.status = "SUCCESS"

\* C4: in a successful paginated response total is the number of items of
\* all upstream pages together, whatever the offset.
RECURSIVE PageSizeSum(_, _)
PageSizeSum(pages, k) == IF k = 0 THEN 0 ELSE Len(pages[k]) + PageSizeSum(pages, k - 1)

C4_TotalIsDrainedSize ==
    Succeeded => result.pagination.total = PageSizeSum(upstream, Len(upstream))

C4_Witness ==
    /\ Succeeded
    /\ Len(upstream) = 2
    /\ Len(upstream[1]) > 0
    /\ Len(upstream[2]) > 0
    /\ request.offset > 0
    /\ result.pagination.total > Len(result.items)
    /\ result.items # <<>>

\* C5: a service list/search method returns the items of all upstream pages
\* concatenated in call order: nothing dropped, duplicated or reordered.
C5_DrainConcatenates ==
    (tool \in DrainTools /\ svc.kind = "returned") => svc.items = S

C5_Witness ==
    /\ tool = "list_analyses"
    /\ svc.kind = "returned"
    /\ Len(upstream) = 2
    /\ Len(upstream[1]) > 1
    /\ Len(upstream[2]) > 0

\* C6: the first upstream call of a drain carries no token, every later call
\* carries the token the call before it returned.
C6_TokenChain ==
    tool \in DrainTools =>
        \A i \in 1..Len(calls) :
            calls[i].params.NextToken =
                (IF i = 1 THEN None ELSE calls[i - 1].outcome.NextToken)

C6_Witness ==
    /\ tool \in DrainTools
    /\ Len(calls) = 2
    /\ calls[1].outcome.NextToken # None
    /\ calls[2].params.NextToken = calls[1].outcome.NextToken
    /\ calls[2].outcome.kind = "ok"

\* C7: when the k-th upstream call of a drain fails, the service method
\* raises that failure and returns no list; the failed call is the last one
\* made (nothing is retried).
C7_DrainFailurePropagates ==
    tool \in DrainTools =>
        /\ \A i \in 1..Len(calls) :
              calls[i].outcome.kind = "error" =>
                  /\ i = Len(calls)
                  /\ pc = "done"
                  /\ svc.kind = "raised"
                  /\ svc.message = calls[i].outcome.message
                  /\ svc.items = None
        /\ svc.kind = "raised" => (calls # <<>> /\ LastCall.outcome.kind = "error")

C7_Witness ==
    /\ tool = "list_analyses"
    /\ Len(calls) = 2
    /\ calls[2].outcome.kind = "error"
    /\ acc # <<>>
    /\ svc.kind = "raised"

\* C8: a paginated tool whose drain fails at any page answers FAILED with
\* the failure's message and no items, also when earlier pages were fetched.
C8_FailedResponseIsEmpty ==
    DrainFailed =>
        /\ result.kind = "response"
        /\ result.status = "FAILED"
        /\ result.error = Some(ErrorInfo(LastCall.outcome.message))
        /\ result.items = <<>>

C8_Witness ==
    /\ DrainFailed
    /\ tool = "list_themes"
    /\ Len(calls) = 2
    /\ Len(acc) > request.offset
    /\ request.offset >= 0
    /\ result.status = "FAILED"

\* C9: on a failed paginated request total is 0, has_more is false and
\* next_offset is absent, whatever the offset and however much was drained.
C9_FailedPaginationZeroed ==
    DrainFailed =>
        /\ result.pagination.total = 0
        /\ result.pagination.has_more = FALSE
        /\ result.pagination.next_offset = None

C9_Witness ==
    /\ DrainFailed
    /\ request.offset > 0
    /\ Len(acc) > request.offset
    /\ Len(calls) = 2
    /\ result.pagination.total = 0

\* C10 (as stated): no tool lets an upstream failure escape as a raised
\* exception; every tool answers a failed upstream call with a tagged
\* failure result.
C10_NoToolRaises ==
    (pc = "done" /\ svc.kind = "raised") =>
        /\ result.kind = "response"
        /\ result.status = "FAILED"
        /\ result.error = Some(ErrorInfo(svc.message))

\* C13: over a finite chain of n pages a drain that returns has made exactly
\* n upstream calls: every response but the last carried a token, the last
\* carried none.
C13_DrainStopsAtFirstTokenlessPage ==
    (tool \in DrainTools /\ svc.kind = "returned" /\ loopTo = 0) =>
        /\ Len(calls) = Len(upstream)
        /\ \A i \in 1..Len(calls) :
              /\ calls[i].outcome.kind = "ok"
              /\ (calls[i].outcome.NextToken = None) <=> (i = Len(calls))

C13_Witness ==
    /\ tool = "list_datasources"
    /\ svc.kind = "returned"
    /\ Len(upstream) = 2
    /\ Len(calls) = 2
    /\ pc = "done"

\* C17: every paginated response, successful or failed, reports limit 10 and
\* the offset of the request.
C17_LimitAndOffsetEchoed ==
    (pc = "done" /\ tool \in PaginatedTools) =>
        /\ result.kind = "response"
        /\ result.pagination.limit = 10
        /\ result.pagination.offset = request.offset

C17_Witness ==
    /\ pc = "done"
    /\ tool = "list_themes"
    /\ result.status = "FAILED"
    /\ request.offset = 3
    /\ result.pagination.offset = 3
    /\ Len(calls) = 2

\* C18 (as stated): list_dashboards and list_datasets answer a successful
\* listing with a paginated response: status SUCCESS, the page of items and
\* pagination.limit = 10, as the other list tools do.
C18_DashboardsAndDatasetsPaginated ==
    (pc = "done" /\ tool \in DictListTools /\ svc.kind = "returned") =>
        /\ result.kind = "response"
        /\ result.status = "SUCCESS"
        /\ result.pagination # None
        /\ result.pagination.limit = 10

\* C19 (as stated): for every offset outside [0, total), negative ones
\* included, a paginated tool whose drain succeeded answers SUCCESS with no
\* items.
C19_OutOfRangeOffsetGivesEmptyPage ==
    (pc = "done" /\ tool \in PaginatedTools /\ svc.kind = "returned"
        /\ (request.offset < 0 \/ request.offset >= Len(S))) =>
        /\ result.status = "SUCCESS"
        /\ result.items = <<>>

\* C20: the list methods of the older wrapper never raise; when an upstream
\* call fails, at the first or a later page, they return an empty list and
\* drop the pages fetched before.
C20_LegacyReturnsEmptyOnFailure ==
    tool \in LegacyMethods =>
        /\ svc.kind # "raised"
        /\ result.kind # "raised"
        /\ (calls # <<>> /\ LastCall.outcome.kind = "error") =>
              /\ pc = "done"
              /\ svc.kind = "returned"
              /\ svc.items = <<>>
              /\ result.kind = "value"
              /\ result.value = <<>>

C20_Witness ==
    /\ tool = "list_all_dashboards"
    /\ Len(calls) = 2
    /\ calls[2].outcome.kind = "error"
    /\ acc # <<>>
    /\ result.kind = "value"

\* C14: against an upstream that hands out a token with every page the drain
\* never returns: the service method yields no list and the tool no
\* response, however many calls were made; only a failing upstream call ends
\* the loop.
C14_EndlessChainNeverReturns ==
    (loopTo # 0 /\ tool \in DrainTools) =>
        /\ svc.kind # "returned"
        /\ (pc = "done" \/ result.kind # "none") =>
              (calls # <<>> /\ LastCall.outcome.kind = "error")
        /\ \A i \in 1..Len(calls) :
              calls[i].outcome.kind = "ok" => calls[i].outcome.NextToken # None

C14_Witness ==
    /\ loopTo # 0
    /\ tool = "search_analyses"
    /\ pc = "draining"
    /\ Len(calls) = MaxDrainCalls
    /\ Len(calls) > Len(upstream)
    /\ Len(acc) >= request.offset + Limit
    /\ result.kind = "none"

\* The pages a client has received, one after the other.
RECURSIVE Pages(_, _)
Pages(h, k) == IF k = 0 THEN <<>> ELSE Pages(h, k - 1) \o h[k].result.items

\* The client has walked the list to its end and every call succeeded.
PagedThrough ==
    /\ pc = "idle"
    /\ hist # <<>>
    /\ \A i \in 1..Len(hist) : hist[i].result.status = "SUCCESS"
    /\ ~LastDone.result.pagination.has_more

\* ceil(n / 10), and 1 for n = 0.
PagesNeeded(n) == IF n = 0 THEN 1 ELSE (n + 9) \div 10

C16_EveryCallDrainsTheWholeChain ==
    /\ \A i \in 1..Len(hist) :
          hist[i].svc = "returned" => hist[i].ncalls = Len(upstream)
    /\ (pc = "done" /\ svc.kind = "returned") => Len(calls) = Len(upstream)

C16_Witness ==
    /\ Len(hist) = 2
    /\ Len(upstream) = 2
    /\ Len(upstream[1]) >= 10
    /\ hist[1].request.offset = 0
    /\ hist[1].ncalls = 2
    /\ hist[2].ncalls = 2
    /\ hist[2].result.status = "SUCCESS"

\* C12: a paginated list tool called twice with the same offset, on an
\* upstream that did not change, returns the same response both times.
C12_SameRequestSameResponse ==
    /\ (Len(hist) = 1 /\ pc = "done") => result = hist[1].result
    /\ Len(hist) = 2 =>
          /\ hist[2].request = hist[1].request
          /\ hist[2].result = hist[1].result

C12_Witness ==
    /\ Len(hist) = 2
    /\ hist[2].tool = "list_analyses"
    /\ hist[2].result.status = "SUCCESS"
    /\ hist[2].result.pagination.has_more
    /\ hist[2].request.offset = 1
    /\ hist[1].ncalls = 2

\* C15: of two paginated calls whose drains are interleaved on the shared
\* client, each returns what it would return running alone: the tool's
\* result over the whole drained sequence S.
C15_InterleavedCallsDoNotMix ==
    /\ pc = "done" => result = Paginate(tool, request, S)
    /\ other.pc = "done" => other.result = Paginate(other.tool, other.request, S)
    /\ pc = "draining" => acc = Flatten(upstream, Len(calls))

\* The second call ran from entry to return between two upstream calls of
\* the first.
C15_Witness ==
    /\ pc = "draining"
    /\ Len(calls) = 1
    /\ acc # <<>>
    /\ other.pc = "done"
    /\ other.tool = "search_dashboards"
    /\ other.result.status = "SUCCESS"
    /\ other.result.pagination.has_more
    /\ other.request.offset # request.offset

\* The items of a page are the elements lo+1 .. lo+Len(page) of s: the
\* elements themselves for list_analyses and the search tools, their
\* {Id, Name} entries (ids are unique in s) for the three formatting tools.
IsRunAt(t, page, s, lo) ==
    /\ lo + Len(page) <= Len(s)
    /\ \A j \in 1..Len(page) :
          IF t \in FormattedListTools
          THEN page[j] = FormatItem(t, s[lo + j])
          ELSE page[j] = s[lo + j]

\* C27: for every offset, negative ones included, a successful paginated
\* response holds at most 10 items, and they are a contiguous run of the
\* drained sequence S in S's order.
C27_PageIsAShortContiguousRun ==
    Succeeded =>
        /\ Len(result.items) <= Limit
        /\ \E lo \in 0..Len(S) : IsRunAt(tool, result.items, S, lo)

C27_Witness ==
    /\ Succeeded
    /\ tool = "list_themes"
    /\ request.offset = 0 - 2
    /\ Len(S) = 9
    /\ Len(result.items) = 1
    /\ result.items[1].Id = 8

\* C28: for offset >= 0 in a successful paginated response, has_more means
\* the page holds exactly 10 items, and has_more = false with offset < total
\* means the page's last item is the last item of S.
C28_FullPageOrLastPage ==
    (Succeeded /\ request.offset >= 0) =>
        LET page == result.items
        IN  /\ result.pagination.has_more => Len(page) = Limit
            /\ (~result.pagination.has_more
                    /\ request.offset < result.pagination.total) =>
                  /\ page # <<>>
                  /\ IsRunAt(tool, page, S, Len(S) - Len(page))

C28_Witness ==
    /\ Succeeded
    /\ tool = "list_templates"
    /\ request.offset = 2
    /\ ~result.pagination.has_more
    /\ Len(result.items) = Limit
    /\ result.items[Limit].Id = Len(S)

\* C29: every upstream call of a search drain, the first and the later ones,
\* carries the caller's filters and the account id.
C29_FiltersOnEveryPageCall ==
    tool \in SearchTools =>
        \A i \in 1..Len(calls) :
            /\ calls[i].params.Filters = request.filters
            /\ calls[i].params.AwsAccountId = AccountId

C29_Witness ==
    /\ pc = "done"
    /\ tool = "search_analyses"
    /\ request.filters = Some(<<"NAME_LIKE">>)
    /\ Len(calls) = 2
    /\ calls[2].params.NextToken # None
    /\ calls[2].params.Filters = Some(<<"NAME_LIKE">>)
    /\ calls[2].outcome.kind = "ok"

\* The value the .env file gives a key: that of its first entry for the key.
RECURSIVE FileValue(_, _)
FileValue(lines, k) ==
    IF lines = <<>> THEN None
    ELSE IF Head(lines).kind = "entry" /\ Head(lines).key = k THEN Some(Head(lines).value)
    ELSE FileValue(Tail(lines), k)

DotenvValue(k) == IF boot.dotenv = None THEN None ELSE FileValue(boot.dotenv[1], k)

FromEnvRan == boot.pc \in {"loaded", "failed"} /\ boot.error # InvalidLiteral

\* Precedence as stated: a source supplies a value when it is given at all.
Stated(k, default) ==
    IF boot.args[k] # None THEN boot.args[k]
    ELSE IF boot.inherited[k] # None THEN boot.inherited[k]
    ELSE IF DotenvValue(k) # None THEN DotenvValue(k)
    ELSE default

Effective(k) ==
    IF Truthy(boot.args[k]) THEN boot.args[k]
    ELSE IF boot.inherited[k] # None THEN boot.inherited[k]
    ELSE DotenvValue(k)

TwelveDecimalDigits(id) ==
    Len(id) = 12 /\ \A i \in 1..Len(id) : IsDecimalDigitChar(id[i])

\* C22: create_server raises ValueError for an account id that is empty or
\* is not exactly 12 decimal digits, with no AWS client created and nothing
\* attached; for a valid config it returns a server with the config and the
\* client attached.
C22_OnlyTwelveDecimalDigitsAccepted ==
    boot.pc \in {"created", "rejected"} =>
        IF TwelveDecimalDigits(boot.config.aws_account_id)
        THEN /\ boot.pc = "created"
             /\ Len(boot.clients) = 1
             /\ boot.server[1].config = boot.config
             /\ boot.server[1].quicksight = boot.clients[1]
        ELSE /\ boot.pc = "rejected"
             /\ boot.clients = <<>>
             /\ boot.server = None

\* The remote service would answer the tool's call.
RemoteAnswers == remote.fails = None

DetailDone(t) == pc = "done" /\ tool = t

\* C23: when the upstream describe_analysis_definition call succeeds the
\* tool returns status SUCCESS; it returns FAILED only when the upstream
\* call fails.
C23_DefinitionSucceedsWhenUpstreamDoes ==
    DetailDone("describe_analysis_definition") =>
        (result.status = "FAILED" <=> ~RemoteAnswers)

\* C24: for describe_dashboard_definition, list_dashboard_versions and
\* update_dashboard_published_version a successful upstream API yields a
\* result that is not FAILED, and publishing calls the upstream operation.
C24_DashboardToolsSucceedWhenUpstreamDoes ==
    (pc = "done" /\ RemoteAnswers
        /\ tool \in {"describe_dashboard_definition", "list_dashboard_versions",
                     "update_dashboard_published_version"}) =>
        /\ result.value.Status # "FAILED"
        /\ Len(calls) = 1

\* C25: when the upstream describe_ingestion call succeeds, the tool's
\* response carries the upstream ingestion's Arn, IngestionStatus,
\* IngestionType and RowInfo.
C25_IngestionFieldsCarried ==
    (DetailDone("describe_ingestion") /\ RemoteAnswers) =>
        /\ result.status = "SUCCESS"
        /\ \A key \in {"Arn", "IngestionStatus", "IngestionType", "RowInfo"} :
              remote.ingestion[key] # None =>
                 result.value[1][CASE key = "Arn" -> "arn"
                                   [] key = "IngestionStatus" -> "ingestion_status"
                                   [] key = "IngestionType" -> "ingestion_type"
                                   [] key = "RowInfo" -> "row_info"]
                    = remote.ingestion[key][1]

\* C26: every response of a request/response-model tool has status SUCCESS
\* or FAILED, and carries an error exactly when the status is FAILED.
C26_ErrorIffFailed ==
    result.kind = "response" =>
        /\ result.status \in {"SUCCESS", "FAILED"}
        /\ result.error # None <=> result.status = "FAILED"

C26_Witness ==
    /\ pc = "done"
    /\ tool = "create_ingestion"
    /\ RemoteAnswers
    /\ result.kind = "response"
    /\ result.status = "FAILED"
    /\ result.error = Some(ErrorInfo("'Arn'"))

====
